---- MODULE Spec2Model ----
(***************************************************************************)
(* Model of the Solana counter program (src/src/lib.rs).                   *)
(*                                                                         *)
(* One step of the model is one invocation of the entrypoint               *)
(* process_instruction(program_id, accounts, instruction_data).  The       *)
(* state is the account store of the host (per account: its data bytes     *)
(* and its owner) together with a record of the last invocation (inputs,   *)
(* account store before it, result, log lines).                            *)
(*                                                                         *)
(* A u64 is a tuple of four 16-bit limbs, least significant first, so the  *)
(* full 64-bit width is kept; its wire and storage form is the sequence of *)
(* eight bytes borsh writes (little-endian).                               *)
(***************************************************************************)
EXTENDS Integers, Sequences, FiniteSets, TLC

VARIABLES
    accounts,     \* the host's account store: key -> [owner, data bytes]
    last,         \* the last invocation: inputs, store before it, result, logs
    initialized,  \* accounts an InitializeCounter has succeeded on
    calls,        \* number of invocations so far
    ledger        \* per account: who initialized it, with what value, and
                  \* the totals of the steps applied successfully since

vars == <<accounts, last, initialized, calls, ledger>>

\* Number of entrypoint invocations explored in one behaviour.
MaxCalls == 2

-----------------------------------------------------------------------------
(* u64 values and their little-endian byte form *)

\* One byte of account data or instruction data (u8).
Byte == 256

\* One 16-bit limb of a u64.
Limb == Byte * Byte

\* std::mem::size_of::<CounterAccount>(): one u64 field.
size_of_CounterAccount == 8

U64(n) == <<n, 0, 0, 0>>

U64_MAX == <<Limb - 1, Limb - 1, Limb - 1, Limb - 1>>

U64_MAX_minus_1 == <<Limb - 2, Limb - 1, Limb - 1, Limb - 1>>

\* u64::to_le_bytes as borsh's BorshSerialize for u64 writes it.
to_le_bytes(u) ==
    << u[1] % Byte, u[1] \div Byte, u[2] % Byte, u[2] \div Byte,
       u[3] % Byte, u[3] \div Byte, u[4] % Byte, u[4] \div Byte >>

\* The eight bytes read most significant first.
from_be_bytes(b) ==
    << b[8] + Byte * b[7], b[6] + Byte * b[5],
       b[4] + Byte * b[3], b[2] + Byte * b[1] >>

\* u64::from_le_bytes as borsh's BorshDeserialize for u64 reads it
\* (b holds exactly eight bytes).
from_le_bytes(b) ==
    << b[1] + Byte * b[2], b[3] + Byte * b[4],
       b[5] + Byte * b[6], b[7] + Byte * b[8] >>

None == [some |-> FALSE, val |-> U64(0)]

Some(u) == [some |-> TRUE, val |-> u]

\* Option::unwrap_or_default in place of unwrap_or(1): an absent step is 0.
unwrap_or_default(opt, default) == IF opt.some THEN opt.val ELSE U64(0)

\* Option::unwrap_or
unwrap_or(opt, default) == IF opt.some THEN opt.val ELSE default

\* u64::checked_add with wrapping in place of the overflow check.
wrapping_add(a, b) ==
    LET s1 == a[1] + b[1]
        s2 == a[2] + b[2] + (s1 \div Limb)
        s3 == a[3] + b[3] + (s2 \div Limb)
        s4 == a[4] + b[4] + (s3 \div Limb)
    IN  Some(<<s1 % Limb, s2 % Limb, s3 % Limb, s4 % Limb>>)

\* u64::checked_add with clamping in place of the overflow check.
saturating_add(a, b) ==
    LET s1 == a[1] + b[1]
        s2 == a[2] + b[2] + (s1 \div Limb)
        s3 == a[3] + b[3] + (s2 \div Limb)
        s4 == a[4] + b[4] + (s3 \div Limb)
    IN  IF s4 >= Limb THEN Some(U64_MAX)
        ELSE Some(<<s1 % Limb, s2 % Limb, s3 % Limb, s4 % Limb>>)

\* u64::checked_add: None when the sum does not fit in 64 bits.
checked_add(a, b) ==
    LET s1 == a[1] + b[1]
        s2 == a[2] + b[2] + (s1 \div Limb)
        s3 == a[3] + b[3] + (s2 \div Limb)
        s4 == a[4] + b[4] + (s3 \div Limb)
    IN  IF s4 >= Limb THEN None
        ELSE Some(<<s1 % Limb, s2 % Limb, s3 % Limb, s4 % Limb>>)

\* u64::checked_sub with clamping at zero in place of the underflow check.
saturating_sub(a, b) ==
    LET d1 == a[1] - b[1]
        d2 == a[2] - b[2] - (IF d1 < 0 THEN 1 ELSE 0)
        d3 == a[3] - b[3] - (IF d2 < 0 THEN 1 ELSE 0)
        d4 == a[4] - b[4] - (IF d3 < 0 THEN 1 ELSE 0)
    IN  IF d4 < 0 THEN Some(U64(0))
        ELSE Some(<<d1 % Limb, d2 % Limb, d3 % Limb, d4 % Limb>>)

\* u64::checked_sub with wrapping in place of the underflow check.
wrapping_sub(a, b) ==
    LET d1 == a[1] - b[1]
        d2 == a[2] - b[2] - (IF d1 < 0 THEN 1 ELSE 0)
        d3 == a[3] - b[3] - (IF d2 < 0 THEN 1 ELSE 0)
        d4 == a[4] - b[4] - (IF d3 < 0 THEN 1 ELSE 0)
    IN  Some(<<d1 % Limb, d2 % Limb, d3 % Limb, d4 % Limb>>)

\* u64::abs_diff in place of checked_sub: the distance between the two.
abs_diff(a, b) ==
    LET d1 == a[1] - b[1]
        d2 == a[2] - b[2] - (IF d1 < 0 THEN 1 ELSE 0)
        d3 == a[3] - b[3] - (IF d2 < 0 THEN 1 ELSE 0)
        d4 == a[4] - b[4] - (IF d3 < 0 THEN 1 ELSE 0)
    IN  IF d4 < 0 THEN wrapping_sub(b, a) ELSE wrapping_sub(a, b)

\* u64::checked_sub that also refuses a difference of zero.
checked_sub_strict(a, b) ==
    LET d1 == a[1] - b[1]
        d2 == a[2] - b[2] - (IF d1 < 0 THEN 1 ELSE 0)
        d3 == a[3] - b[3] - (IF d2 < 0 THEN 1 ELSE 0)
        d4 == a[4] - b[4] - (IF d3 < 0 THEN 1 ELSE 0)
    IN  IF d4 < 0 \/ a = b THEN None
        ELSE Some(<<d1 % Limb, d2 % Limb, d3 % Limb, d4 % Limb>>)

\* u64::checked_sub: None when the subtrahend exceeds the minuend.
checked_sub(a, b) ==
    LET d1 == a[1] - b[1]
        d2 == a[2] - b[2] - (IF d1 < 0 THEN 1 ELSE 0)
        d3 == a[3] - b[3] - (IF d2 < 0 THEN 1 ELSE 0)
        d4 == a[4] - b[4] - (IF d3 < 0 THEN 1 ELSE 0)
    IN  IF d4 < 0 THEN None
        ELSE Some(<<d1 % Limb, d2 % Limb, d3 % Limb, d4 % Limb>>)

-----------------------------------------------------------------------------
(* borsh codecs *)

\* borsh::to_vec(&CounterInstruction::InitializeCounter { initial_value })
enc_InitializeCounter(v) == <<0>> \o to_le_bytes(v)

\* borsh::to_vec(&CounterInstruction::IncrementCounter { step })
enc_IncrementCounter(step) ==
    IF step.some THEN <<1, 1>> \o to_le_bytes(step.val) ELSE <<1, 0>>

\* borsh::to_vec(&CounterInstruction::DecrementCounter { step })
enc_DecrementCounter(step) ==
    IF step.some THEN <<2, 1>> \o to_le_bytes(step.val) ELSE <<2, 0>>

BadInstruction ==
    [ok |-> FALSE, variant |-> "None", initial_value |-> U64(0), step |-> None]

\* Option<u64>::deserialize followed by the end-of-input check of
\* try_from_slice: flag 0 is None, flag 1 is Some(eight bytes), any other
\* flag, a short payload or left-over bytes is an error.
dec_step(variant, rest) ==
    IF Len(rest) = 0 THEN BadInstruction
    ELSE IF rest[1] = 0 THEN
        IF Len(rest) = 1
        THEN [ok |-> TRUE, variant |-> variant, initial_value |-> U64(0),
              step |-> None]
        ELSE BadInstruction
    ELSE IF rest[1] = 1 THEN
        IF Len(rest) = 1 + 8
        THEN [ok |-> TRUE, variant |-> variant, initial_value |-> U64(0),
              step |-> Some(from_le_bytes(SubSeq(rest, 2, 9)))]
        ELSE BadInstruction
    ELSE BadInstruction

\* A decoder that stops at the end of the value and ignores what follows
\* (BorshDeserialize::deserialize without the end-of-input check).
CounterInstruction_deserialize_prefix(buf) ==
    IF Len(buf) = 0 THEN BadInstruction
    ELSE LET tag == buf[1]
             rest == Tail(buf)
         IN  IF tag = 0 THEN
                 IF Len(rest) >= 8
                 THEN [ok |-> TRUE, variant |-> "InitializeCounter",
                       initial_value |-> from_le_bytes(SubSeq(rest, 1, 8)),
                       step |-> None]
                 ELSE BadInstruction
             ELSE IF tag \in {1, 2} /\ Len(rest) >= 1 THEN
                 LET variant == IF tag = 1 THEN "IncrementCounter"
                                ELSE "DecrementCounter"
                 IN  IF rest[1] = 0 THEN dec_step(variant, <<0>>)
                     ELSE IF Len(rest) >= 9
                          THEN dec_step(variant, SubSeq(rest, 1, 9))
                          ELSE BadInstruction
             ELSE BadInstruction

\* CounterInstruction::try_from_slice(instruction_data): a one-byte variant
\* index, then the variant's fields; the whole buffer must be consumed.
CounterInstruction_try_from_slice(buf) ==
    IF Len(buf) = 0 THEN BadInstruction
    ELSE LET tag == buf[1]
             rest == Tail(buf)
         IN  IF tag = 0 THEN
                 IF Len(rest) = 8
                 THEN [ok |-> TRUE, variant |-> "InitializeCounter",
                       initial_value |-> from_le_bytes(rest), step |-> None]
                 ELSE BadInstruction
             ELSE IF tag = 1 THEN dec_step("IncrementCounter", rest)
             ELSE IF tag = 2 THEN dec_step("DecrementCounter", rest)
             ELSE BadInstruction

\* A record decoder that reads the first eight bytes and ignores the rest.
CounterAccount_deserialize_prefix(data) ==
    IF Len(data) >= size_of_CounterAccount
    THEN [ok |-> TRUE, count |-> from_le_bytes(SubSeq(data, 1, 8))]
    ELSE [ok |-> FALSE, count |-> U64(0)]

\* CounterAccount::try_from_slice(&data): exactly eight bytes, else an
\* io::Error (too short, or bytes left over).
CounterAccount_try_from_slice(data) ==
    IF Len(data) = size_of_CounterAccount
    THEN [ok |-> TRUE, count |-> from_le_bytes(data)]
    ELSE [ok |-> FALSE, count |-> U64(0)]

\* Serializing as into a growing Vec: the eight bytes are put in front of
\* what the account already holds.
serialize_append(count, data) ==
    [ok |-> TRUE, data |-> to_le_bytes(count) \o data]

\* Serializing into a copy of the account data: the account keeps its bytes.
serialize_to_copy(count, data) ==
    [ok |-> Len(data) >= size_of_CounterAccount, data |-> data]

\* counter_data.serialize(&mut &mut data[..]): writes the eight bytes over
\* the front of the slice.  On a slice too short for them the write fills
\* the slice with the leading bytes of the count (Write for &mut [u8]
\* copies what fits) and write_all then fails with an io::Error.
serialize(count, data) ==
    IF Len(data) >= size_of_CounterAccount
    THEN [ok |-> TRUE,
          data |-> to_le_bytes(count) \o SubSeq(data, 9, Len(data))]
    ELSE [ok |-> FALSE, data |-> SubSeq(to_le_bytes(count), 1, Len(data))]

-----------------------------------------------------------------------------
(* accounts, identities, handler results *)

\* Identities under which the program may be deployed.
Programs == {"P1", "P2"}

SystemProgram == "SystemProgram"

NativeLoader == "NativeLoader"

Keys == {"counter", "other", "payer", "system_program"}

\* A handler result with the msg! lines dropped (logging compiled out).
Return_silent(result, accs, logs) ==
    [result |-> result, accounts |-> accs, logs |-> <<>>]

\* What a handler hands back: the ProgramResult, the account store as the
\* invocation leaves it, and the msg! lines it emitted.  With an Err the
\* store is the one the invocation found: the host discards what a failed
\* instruction wrote (a created account, the bytes of a short write).
Return(result, accs, logs) ==
    [result |-> result, accounts |-> accs, logs |-> logs]

\* A reference fetch that only insists on the first reference.
next_account_info_first_only(accts, i) == 1 <= Len(accts)

\* next_account_info: the i-th reference of the list exists.
next_account_info(accts, i) == i <= Len(accts)

\* An account creation that reserves room for a one-byte header in front
\* of the record.
create_account_with_header(accs, from, to, space, owner, host) ==
    IF host = "Ok" /\ accs[to].owner = SystemProgram
    THEN [ok |-> TRUE,
          accounts |-> [accs EXCEPT ![to] =
                          [owner |-> owner,
                           data |-> [i \in 1..(space + 1) |-> 0]]]]
    ELSE [ok |-> FALSE, accounts |-> accs]

\* An account creation that leaves the new account with the system program
\* instead of assigning it to `owner`.
create_account_unassigned(accs, from, to, space, owner, host) ==
    IF host = "Ok" /\ accs[to].owner = SystemProgram
    THEN [ok |-> TRUE,
          accounts |-> [accs EXCEPT ![to] =
                          [owner |-> SystemProgram,
                           data |-> [i \in 1..space |-> 0]]]]
    ELSE [ok |-> FALSE, accounts |-> accs]

\* system_instruction::create_account(from, to, lamports, space, owner)
\* invoked through the system program.  The host decides whether it goes
\* through (signatures, funds of the payer, lamports already held by the
\* new account); it never does for an account the system program does not
\* own.  On success the account has `space` zero bytes and the new owner.
create_account(accs, from, to, space, owner, host) ==
    IF host = "Ok" /\ accs[to].owner = SystemProgram
    THEN [ok |-> TRUE,
          accounts |-> [accs EXCEPT ![to] =
                          [owner |-> owner, data |-> [i \in 1..space |-> 0]]]]
    ELSE [ok |-> FALSE, accounts |-> accs]

\* The "already initialized" test with the check left out.
never_initialized(data) == FALSE

\* counter_account.data.borrow().len() > 0
already_initialized(data) == Len(data) > 0

\* process_initialize_counter(program_id, accounts, initial_value)
process_initialize_counter(program_id, accts, accs, initial_value, host) ==
    LET log1 == <<"Initializing counter with value">>
    IN
    IF ~ next_account_info(accts, 1) \/ ~ next_account_info(accts, 2)
       \/ ~ next_account_info(accts, 3)
    THEN Return("NotEnoughAccountKeys", accs, log1)
    ELSE
    LET counter_account == accts[1]
        payer_account == accts[2]
    IN
    IF already_initialized(accs[counter_account].data)
    THEN Return("AccountAlreadyInitialized", accs, log1)
    ELSE IF host = "UnsupportedSysvar"
    THEN Return("UnsupportedSysvar", accs, log1)
    ELSE
    LET created == create_account(accs, payer_account, counter_account,
                                  size_of_CounterAccount, program_id, host)
    IN
    IF ~ created.ok THEN Return("CreateAccountFailed", accs, log1)
    ELSE
    LET written == serialize(initial_value,
                             created.accounts[counter_account].data)
    IN
    IF ~ written.ok THEN Return("BorshIoError", accs, log1)
    ELSE Return("Ok",
                [created.accounts EXCEPT ![counter_account].data = written.data],
                log1 \o <<"Counter initialized successfully with value">>)

\* The two account checks of the increment handler in the other order.
increment_checks_empty_first(program_id, account) ==
    IF Len(account.data) = 0 THEN "UninitializedAccount"
    ELSE IF account.owner # program_id THEN "IncorrectProgramId"
    ELSE "Ok"

\* Increment: ownership check, then the initialized check.
increment_checks(program_id, account) ==
    IF account.owner # program_id THEN "IncorrectProgramId"
    ELSE IF Len(account.data) = 0 THEN "UninitializedAccount"
    ELSE "Ok"

\* The increment handler storing the wrapped sum before it reports the
\* overflow.
process_increment_counter_write_first(program_id, accts, accs, step) ==
    LET step_value == unwrap_or(step, U64(1))
        log1 == <<"Incrementing counter by">>
    IN
    IF ~ next_account_info(accts, 1)
    THEN Return("NotEnoughAccountKeys", accs, log1)
    ELSE
    LET counter_account == accts[1]
        check == increment_checks(program_id, accs[counter_account])
        data == accs[counter_account].data
        counter_data == CounterAccount_try_from_slice(data)
    IN
    IF check # "Ok" THEN Return(check, accs, log1)
    ELSE IF ~ counter_data.ok THEN Return("BorshIoError", accs, log1)
    ELSE
    LET wrapped == wrapping_add(counter_data.count, step_value)
        sum == checked_add(counter_data.count, step_value)
        written == serialize(wrapped.val, data)
        stored == [accs EXCEPT ![counter_account].data = written.data]
    IN
    IF ~ sum.some THEN Return("InvalidAccountData", stored, log1)
    ELSE Return("Ok", stored, log1 \o <<"Counter incremented to">>)

\* process_increment_counter(program_id, accounts, step)
process_increment_counter(program_id, accts, accs, step) ==
    LET step_value == unwrap_or(step, U64(1))
        log1 == <<"Incrementing counter by">>
    IN
    IF ~ next_account_info(accts, 1)
    THEN Return("NotEnoughAccountKeys", accs, log1)
    ELSE
    LET counter_account == accts[1]
        check == increment_checks(program_id, accs[counter_account])
        data == accs[counter_account].data
        counter_data == CounterAccount_try_from_slice(data)
    IN
    IF check # "Ok" THEN Return(check, accs, log1)
    ELSE IF ~ counter_data.ok THEN Return("BorshIoError", accs, log1)
    ELSE
    LET sum == checked_add(counter_data.count, step_value)
    IN
    IF ~ sum.some THEN Return("InvalidAccountData", accs, log1)
    ELSE
    LET written == serialize(sum.val, data)
    IN
    IF ~ written.ok THEN Return("BorshIoError", accs, log1)
    ELSE Return("Ok",
                [accs EXCEPT ![counter_account].data = written.data],
                log1 \o <<"Counter incremented to">>)

\* The two account checks of the decrement handler in the other order.
decrement_checks_empty_first(program_id, account) ==
    IF Len(account.data) = 0 THEN "UninitializedAccount"
    ELSE IF account.owner # program_id THEN "IncorrectProgramId"
    ELSE "Ok"

\* Decrement: ownership check, then the initialized check.
decrement_checks(program_id, account) ==
    IF account.owner # program_id THEN "IncorrectProgramId"
    ELSE IF Len(account.data) = 0 THEN "UninitializedAccount"
    ELSE "Ok"

\* A decrement handler that closes the account when the count reaches
\* zero: the storage is released and the account goes back to the system
\* program.
process_decrement_counter_closing(program_id, accts, accs, step) ==
    LET step_value == unwrap_or(step, U64(1))
        log1 == <<"Decrementing counter by">>
    IN
    IF ~ next_account_info(accts, 1)
    THEN Return("NotEnoughAccountKeys", accs, log1)
    ELSE
    LET counter_account == accts[1]
        check == decrement_checks(program_id, accs[counter_account])
        data == accs[counter_account].data
        counter_data == CounterAccount_try_from_slice(data)
    IN
    IF check # "Ok" THEN Return(check, accs, log1)
    ELSE IF ~ counter_data.ok THEN Return("BorshIoError", accs, log1)
    ELSE
    LET difference == checked_sub(counter_data.count, step_value)
    IN
    IF ~ difference.some THEN Return("InvalidAccountData", accs, log1)
    ELSE IF difference.val = U64(0)
    THEN Return("Ok",
                [accs EXCEPT ![counter_account] =
                   [owner |-> SystemProgram, data |-> <<>>]],
                log1 \o <<"Counter decremented to">>)
    ELSE Return("Ok",
                [accs EXCEPT ![counter_account].data =
                   serialize(difference.val, data).data],
                log1 \o <<"Counter decremented to">>)

\* process_decrement_counter(program_id, accounts, step)
process_decrement_counter(program_id, accts, accs, step) ==
    LET step_value == unwrap_or(step, U64(1))
        log1 == <<"Decrementing counter by">>
    IN
    IF ~ next_account_info(accts, 1)
    THEN Return("NotEnoughAccountKeys", accs, log1)
    ELSE
    LET counter_account == accts[1]
        check == decrement_checks(program_id, accs[counter_account])
        data == accs[counter_account].data
        counter_data == CounterAccount_try_from_slice(data)
    IN
    IF check # "Ok" THEN Return(check, accs, log1)
    ELSE IF ~ counter_data.ok THEN Return("BorshIoError", accs, log1)
    ELSE
    LET difference == checked_sub(counter_data.count, step_value)
    IN
    IF ~ difference.some THEN Return("InvalidAccountData", accs, log1)
    ELSE
    LET written == serialize(difference.val, data)
    IN
    IF ~ written.ok THEN Return("BorshIoError", accs, log1)
    ELSE Return("Ok",
                [accs EXCEPT ![counter_account].data = written.data],
                log1 \o <<"Counter decremented to">>)

\* A dispatcher that fetches the rent sysvar before it routes, so that every
\* instruction fails when the host cannot supply it.
process_instruction_rent_first(program_id, accts, accs, instruction_data, host) ==
    LET instruction == CounterInstruction_try_from_slice(instruction_data)
    IN
    IF ~ instruction.ok THEN Return("InvalidInstructionData", accs, <<>>)
    ELSE IF host = "UnsupportedSysvar"
    THEN Return("UnsupportedSysvar", accs, <<>>)
    ELSE IF instruction.variant = "InitializeCounter"
    THEN process_initialize_counter(program_id, accts, accs,
                                    instruction.initial_value, host)
    ELSE IF instruction.variant = "IncrementCounter"
    THEN process_increment_counter(program_id, accts, accs, instruction.step)
    ELSE process_decrement_counter(program_id, accts, accs, instruction.step)

\* process_instruction(program_id, accounts, instruction_data): decode,
\* then route to the handler of the variant.
process_instruction(program_id, accts, accs, instruction_data, host) ==
    LET instruction == CounterInstruction_try_from_slice(instruction_data)
    IN
    IF ~ instruction.ok THEN Return("InvalidInstructionData", accs, <<>>)
    ELSE IF instruction.variant = "InitializeCounter"
    THEN process_initialize_counter(program_id, accts, accs,
                                    instruction.initial_value, host)
    ELSE IF instruction.variant = "IncrementCounter"
    THEN process_increment_counter(program_id, accts, accs, instruction.step)
    ELSE process_decrement_counter(program_id, accts, accs, instruction.step)

-----------------------------------------------------------------------------
(* the state machine: one step is one invocation of the entrypoint *)

Unallocated == [owner |-> SystemProgram, data |-> <<>>]

\* Accounts the host can hand to the program as its first reference before
\* the program has ever run on them: not allocated yet, or created by
\* someone else's create_account with the program as owner and 0, 1 or 9
\* bytes of space.
FreshSnapshots ==
    { Unallocated,
      [owner |-> "P1", data |-> <<>>],
      [owner |-> "P1", data |-> <<7>>],
      [owner |-> "P1", data |-> <<1, 0, 0, 0, 0, 0, 0, 0, 0>>] }

\* Accounts an earlier InitializeCounter of the program has set up.
InitializedSnapshots ==
    { [owner |-> "P1", data |-> to_le_bytes(U64(0))],
      [owner |-> "P1", data |-> to_le_bytes(U64(5))] }

\* Payloads of InitializeCounter.
InitialValues == {U64(0), U64_MAX_minus_1, U64_MAX}

\* Steps of IncrementCounter and DecrementCounter.
Steps == {None, Some(U64(0)), Some(U64(1)), Some(U64_MAX)}

InitializeBuffers == {enc_InitializeCounter(v) : v \in InitialValues}

IncrementBuffers == {enc_IncrementCounter(s) : s \in Steps}

DecrementBuffers == {enc_DecrementCounter(s) : s \in Steps}

\* Buffers that are not the encoding of an instruction: empty, unknown
\* variant index, truncated payloads, an Option flag other than 0 and 1,
\* and valid encodings followed by one more byte.
MalformedBuffers ==
    { <<>>, <<3>>, <<1>>, <<1, 2>>, <<2, 1, 5>>, <<0, 42, 0, 0, 0>>,
      enc_InitializeCounter(U64(42)) \o <<0>>,
      enc_IncrementCounter(None) \o <<0>>,
      enc_DecrementCounter(Some(U64(1))) \o <<9>> }

\* Account reference lists a caller passes.
AccountLists ==
    { <<>>, <<"counter">>, <<"counter", "payer", "system_program">>,
      <<"counter", "other">>, <<"payer", "counter">> }

\* Outcomes of the host calls of the initialize handler (Rent::get and the
\* create_account invoke).
HostOutcomes == {"Ok", "UnsupportedSysvar", "CreateAccountFailed"}

\* Totals of steps are kept two bytes wider than a count, so that the sum
\* of the steps of a whole behaviour fits.
LedgerWidth == size_of_CounterAccount + 2

\* A byte string extended with zero bytes to the ledger's width.
Widen(b) == [i \in 1..LedgerWidth |-> IF i <= Len(b) THEN b[i] ELSE 0]

RECURSIVE WideCarry(_, _, _)
WideCarry(a, b, i) ==
    IF i = 0 THEN 0 ELSE (a[i] + b[i] + WideCarry(a, b, i - 1)) \div Byte

\* Sum of two byte strings of the ledger's width.
WideSum(a, b) ==
    [i \in 1..LedgerWidth |-> (a[i] + b[i] + WideCarry(a, b, i - 1)) % Byte]

\* The step an increment or decrement buffer carries, as the bytes on the
\* wire (the default step 1 when the buffer carries none).
WireStep(buf) ==
    IF Len(buf) = 2 + size_of_CounterAccount
    THEN SubSeq(buf, 3, 2 + size_of_CounterAccount)
    ELSE <<1, 0, 0, 0, 0, 0, 0, 0>>

NoEntry ==
    [program |-> "None", initial |-> Widen(<<>>), incs |-> Widen(<<>>),
     decs |-> Widen(<<>>)]

\* The ledger entry of an account just initialized by `program` with the
\* count bytes `initial`.
NewEntry(program, initial) ==
    [program |-> program, initial |-> Widen(initial), incs |-> Widen(<<>>),
     decs |-> Widen(<<>>)]

NoCall ==
    [program_id |-> "P1", accts |-> <<>>, buf |-> <<>>, host |-> "Ok",
     pre |-> [k \in Keys |-> Unallocated], result |-> "NoCall", logs |-> <<>>]

Init ==
    /\ \E c \in FreshSnapshots \cup InitializedSnapshots :
         /\ accounts = [k \in Keys |->
                          IF k = "counter" THEN c
                          ELSE IF k = "other"
                               THEN [owner |-> "P1", data |-> to_le_bytes(U64(7))]
                          ELSE IF k = "payer" THEN Unallocated
                          ELSE [owner |-> NativeLoader, data |-> <<>>]]
         /\ initialized = IF c \in InitializedSnapshots
                          THEN {"counter", "other"} ELSE {"other"}
         /\ ledger = [k \in Keys |->
                        IF k = "other" \/ (k = "counter" /\ c \in InitializedSnapshots)
                        THEN NewEntry("P1", IF k = "other"
                                            THEN to_le_bytes(U64(7)) ELSE c.data)
                        ELSE NoEntry]
    /\ last = NoCall
    /\ calls = 0

\* One invocation: the host runs the entrypoint on the current account
\* store and commits what it leaves; `initialized` remembers the accounts
\* an InitializeCounter has succeeded on.
Commit(program_id, accts, buf, host) ==
    LET r == process_instruction(program_id, accts, accounts, buf, host)
    IN  /\ accounts' = r.accounts
        /\ last' = [program_id |-> program_id, accts |-> accts, buf |-> buf,
                    host |-> host, pre |-> accounts, result |-> r.result,
                    logs |-> r.logs]
        /\ initialized' =
             IF r.result = "Ok" /\ buf[1] = 0
             THEN initialized \cup {accts[1]}
             ELSE initialized
        /\ ledger' =
             IF r.result # "Ok" THEN ledger
             ELSE IF buf[1] = 0
             THEN [ledger EXCEPT ![accts[1]] =
                     NewEntry(program_id, SubSeq(buf, 2, Len(buf)))]
             ELSE IF buf[1] = 1
             THEN [ledger EXCEPT ![accts[1]].incs =
                     WideSum(@, Widen(WireStep(buf)))]
             ELSE [ledger EXCEPT ![accts[1]].decs =
                     WideSum(@, Widen(WireStep(buf)))]

Invoke(program_id, accts, buf, host) ==
    /\ Commit(program_id, accts, buf, host)
    /\ calls' = calls + 1

InitializeCounter ==
    /\ calls < MaxCalls
    /\ \E p \in Programs, l \in AccountLists, b \in InitializeBuffers,
         h \in HostOutcomes : Invoke(p, l, b, h)

IncrementCounter ==
    /\ calls < MaxCalls
    /\ \E p \in Programs, l \in AccountLists, b \in IncrementBuffers :
         Invoke(p, l, b, "Ok")

DecrementCounter ==
    /\ calls < MaxCalls
    /\ \E p \in Programs, l \in AccountLists, b \in DecrementBuffers :
         Invoke(p, l, b, "Ok")

MalformedInstruction ==
    /\ calls < MaxCalls
    /\ \E p \in Programs, l \in AccountLists, b \in MalformedBuffers :
         Invoke(p, l, b, "Ok")

Next ==
    \/ InitializeCounter
    \/ IncrementCounter
    \/ DecrementCounter
    \/ MalformedInstruction

Spec == Init /\ [][Next]_vars

-----------------------------------------------------------------------------
(* the scenario of test_counter_program: seven transactions on a fresh     *)
(* counter account, with rejected transactions of other submitters in      *)
(* between                                                                 *)

\* The instruction data of the seven transactions of the test, in order.
Script ==
    << enc_InitializeCounter(U64(42)),
       enc_IncrementCounter(None),
       enc_IncrementCounter(Some(U64(5))),
       enc_DecrementCounter(None),
       enc_DecrementCounter(Some(U64(3))),
       enc_DecrementCounter(Some(U64(44))),
       enc_DecrementCounter(Some(U64(1))) >>

\* The account lists a transaction of the script may pass: the three
\* references for the initialization, any list headed by the counter
\* account afterwards.
ScriptLists(n) ==
    IF n = 1 THEN {<<"counter", "payer", "system_program">>}
    ELSE {l \in AccountLists : Len(l) >= 1 /\ l[1] = "counter"}

ScenarioInit ==
    /\ accounts = [k \in Keys |->
                     IF k = "other"
                     THEN [owner |-> "P1", data |-> to_le_bytes(U64(7))]
                     ELSE IF k = "system_program"
                     THEN [owner |-> NativeLoader, data |-> <<>>]
                     ELSE Unallocated]
    /\ initialized = {"other"}
    /\ ledger = [k \in Keys |->
                   IF k = "other" THEN NewEntry("P1", to_le_bytes(U64(7)))
                   ELSE NoEntry]
    /\ last = NoCall
    /\ calls = 0

\* The next transaction of the script, sent to the program the counter
\* account was initialized under.
ScenarioStep ==
    /\ calls < Len(Script)
    /\ \E p \in Programs, l \in ScriptLists(calls + 1) :
         /\ calls = 0 \/ p = accounts["counter"].owner
         /\ Invoke(p, l, Script[calls + 1], "Ok")

\* A transaction of another submitter that the program rejects.
ScenarioRejected ==
    \E p \in Programs,
       l \in {<<"counter">>, <<"counter", "payer", "system_program">>},
       b \in InitializeBuffers \cup IncrementBuffers \cup DecrementBuffers
              \cup {<<3>>} :
         /\ process_instruction(p, l, accounts, b, "Ok").result # "Ok"
         /\ Commit(p, l, b, "Ok")
         /\ UNCHANGED calls

ScenarioNext ==
    \/ ScenarioStep
    \/ ScenarioRejected

SpecScenario == ScenarioInit /\ [][ScenarioNext]_vars

TypeOK ==
    /\ \A k \in Keys :
         /\ accounts[k].owner \in Programs \cup {SystemProgram, NativeLoader}
         /\ \A i \in 1..Len(accounts[k].data) : accounts[k].data[i] \in 0..(Byte - 1)
    /\ calls \in 0..MaxCalls
    /\ initialized \subseteq Keys
    /\ \A k \in Keys : ledger[k].program \in Programs \cup {"None"}

-----------------------------------------------------------------------------
(* Vocabulary of the properties.  The properties read the raw instruction  *)
(* bytes and the raw account bytes of the last invocation and do 64-bit    *)
(* arithmetic on the eight bytes directly (radix 256), independently of    *)
(* the limb arithmetic of the handlers.                                    *)

Called == last.result # "NoCall"

Succeeded == last.result = "Ok"

\* The buffer is exactly the encoding of one instruction of the variant.
IsInitializeBuf(b) == Len(b) = 9 /\ b[1] = 0

IsStepBuf(b, tag) ==
    /\ Len(b) \in {2, 10}
    /\ b[1] = tag
    /\ b[2] = (IF Len(b) = 2 THEN 0 ELSE 1)

IsIncrementBuf(b) == IsStepBuf(b, 1)

IsDecrementBuf(b) == IsStepBuf(b, 2)

ExactEncoding(b) == IsInitializeBuf(b) \/ IsIncrementBuf(b) \/ IsDecrementBuf(b)

OneBytes == <<1, 0, 0, 0, 0, 0, 0, 0>>

MaxBytes == <<255, 255, 255, 255, 255, 255, 255, 255>>

ZeroBytes == <<0, 0, 0, 0, 0, 0, 0, 0>>

\* The step of an increment or decrement buffer, as eight bytes.
StepBytes(b) == IF Len(b) = 10 THEN SubSeq(b, 3, 10) ELSE OneBytes

\* The account the last invocation was aimed at: first of its list.
HasTarget == Len(last.accts) >= 1

Target == last.accts[1]

PreOwner == last.pre[Target].owner

PreData == last.pre[Target].data

PostData == accounts[Target].data

\* The target held a well-formed record owned by the invoked program.
OwnedRecord == HasTarget /\ PreOwner = last.program_id /\ Len(PreData) = 8

RECURSIVE CarryOut(_, _, _)
\* Carry out of byte position i when adding the byte strings a and b.
CarryOut(a, b, i) ==
    IF i = 0 THEN 0 ELSE (a[i] + b[i] + CarryOut(a, b, i - 1)) \div 256

\* a + b <= 2^64 - 1
SumFits(a, b) == CarryOut(a, b, 8) = 0

\* The low 64 bits of a + b.
ByteSum(a, b) == [i \in 1..8 |-> (a[i] + b[i] + CarryOut(a, b, i - 1)) % 256]

RECURSIVE LeqFrom(_, _, _)
LeqFrom(a, b, i) ==
    IF i = 0 THEN TRUE
    ELSE IF a[i] < b[i] THEN TRUE
    ELSE IF a[i] > b[i] THEN FALSE
    ELSE LeqFrom(a, b, i - 1)

\* a <= b as 64-bit numbers
LessEq(a, b) == LeqFrom(a, b, 8)

\* r = c - s
IsDifference(r, c, s) == SumFits(r, s) /\ ByteSum(r, s) = c

IsByteString(d) == \A i \in 1..Len(d) : d[i] \in 0..255

\* The last invocation was an increment (a decrement) that reached the
\* arithmetic: well-formed buffer, program-owned well-formed record.
IncrementOnRecord == Called /\ IsIncrementBuf(last.buf) /\ OwnedRecord

DecrementOnRecord == Called /\ IsDecrementBuf(last.buf) /\ OwnedRecord

-----------------------------------------------------------------------------
\* C1: in every reachable state the count of every account an Initialize
\* has succeeded on is eight bytes, i.e. an integer in 0..2^64-1; an
\* Increment whose sum exceeds 2^64-1 and a Decrement whose step exceeds
\* the count are rejected and leave the count as it was (not wrapped, not
\* clamped).
C1_CountInRangeHardFailures ==
    /\ \A k \in initialized :
         Len(accounts[k].data) = 8 /\ IsByteString(accounts[k].data)
    /\ (IncrementOnRecord /\ ~ SumFits(PreData, StepBytes(last.buf)))
         => (~ Succeeded /\ PostData = PreData)
    /\ (DecrementOnRecord /\ ~ LessEq(StepBytes(last.buf), PreData))
         => (~ Succeeded /\ PostData = PreData)

\* An increment by 1 of a count of 2^64-1 was rejected.
C1_Witness ==
    /\ IncrementOnRecord
    /\ PreData = MaxBytes
    /\ StepBytes(last.buf) = OneBytes
    /\ ~ Succeeded
    /\ Target \in initialized

\* C2: Increment(Some(s)) on a program-owned record with count c succeeds
\* and stores c+s when c+s <= 2^64-1, and fails with InvalidAccountData
\* exactly when c+s > 2^64-1.
C2_IncrementSome ==
    (IncrementOnRecord /\ Len(last.buf) = 10) =>
        IF SumFits(PreData, StepBytes(last.buf))
        THEN Succeeded /\ PostData = ByteSum(PreData, StepBytes(last.buf))
        ELSE last.result = "InvalidAccountData"

\* A successful Increment(Some(s)) with s > 0 that landed exactly on 2^64-1.
C2_Witness ==
    /\ IncrementOnRecord
    /\ Len(last.buf) = 10
    /\ Succeeded
    /\ PostData = MaxBytes
    /\ PreData # MaxBytes

\* C3: Decrement(Some(s)) on a program-owned record with count c succeeds
\* and stores c-s when s <= c, and fails with InvalidAccountData exactly
\* when s > c.
C3_DecrementSome ==
    (DecrementOnRecord /\ Len(last.buf) = 10) =>
        IF LessEq(StepBytes(last.buf), PreData)
        THEN Succeeded /\ IsDifference(PostData, PreData, StepBytes(last.buf))
        ELSE last.result = "InvalidAccountData"

\* Decrement(Some(1)) on count 0 failed with InvalidAccountData.
C3_Witness ==
    /\ DecrementOnRecord
    /\ Len(last.buf) = 10
    /\ PreData = ZeroBytes
    /\ StepBytes(last.buf) = OneBytes
    /\ last.result = "InvalidAccountData"

-----------------------------------------------------------------------------
\* The last invocation was an InitializeCounter passing the three
\* references whose first account had zero-length storage.
InitializeOnEmpty ==
    /\ Called /\ IsInitializeBuf(last.buf)
    /\ Len(last.accts) >= 3
    /\ Len(PreData) = 0

\* The last invocation was an InitializeCounter whose first account had
\* non-empty storage.
InitializeOnNonEmpty ==
    /\ Called /\ IsInitializeBuf(last.buf)
    /\ HasTarget
    /\ Len(PreData) > 0

\* The eight payload bytes of an InitializeCounter buffer.
InitialValueBytes(b) == SubSeq(b, 2, 9)

\* The host lets the account creation through: rent is available and the
\* create_account call is accepted for an account the system program owns.
HostAccepts == last.host = "Ok" /\ PreOwner = SystemProgram

\* C4 as stated: Initialize(v) with three references on a zero-length
\* counter account always succeeds and stores v.
C4_AsStated ==
    InitializeOnEmpty =>
        (Succeeded /\ PostData = InitialValueBytes(last.buf))

\* C4 (amended): Initialize(v) with three references on a zero-length
\* counter account succeeds whenever the host's rent lookup and
\* create_account call succeed, and then the account is owned by the
\* program and its stored count equals v; when the host refuses, the call
\* fails with the host's error and no account is changed.
C4_InitializeStoresValue ==
    InitializeOnEmpty =>
        /\ HostAccepts => Succeeded
        /\ Succeeded =>
             /\ HostAccepts
             /\ PostData = InitialValueBytes(last.buf)
             /\ accounts[Target].owner = last.program_id
        /\ ~ Succeeded =>
             /\ last.result \in {"UnsupportedSysvar", "CreateAccountFailed"}
             /\ accounts = last.pre

\* Initialize(2^64-2) succeeded on an unallocated account.
C4_Witness ==
    /\ InitializeOnEmpty
    /\ Succeeded
    /\ last.pre[Target] = Unallocated
    /\ PostData = <<254, 255, 255, 255, 255, 255, 255, 255>>

\* C5 as stated: Initialize on a counter account with non-empty storage
\* fails with AccountAlreadyInitialized, whatever else is passed.
C5_AsStated ==
    InitializeOnNonEmpty =>
        (last.result = "AccountAlreadyInitialized" /\ PostData = PreData)

\* C5 (amended): Initialize invoked with at least three references on a
\* counter account with non-empty storage, whoever owns it, fails with
\* AccountAlreadyInitialized and changes no account.
C5_DoubleInitialize ==
    (InitializeOnNonEmpty /\ Len(last.accts) >= 3) =>
        (last.result = "AccountAlreadyInitialized" /\ accounts = last.pre)

\* Initialize was rejected on an initialized record that the invoked
\* program does not own.
C5_Witness ==
    /\ InitializeOnNonEmpty
    /\ Len(last.accts) >= 3
    /\ Target \in initialized
    /\ PreOwner # last.program_id
    /\ last.result = "AccountAlreadyInitialized"

\* C6: an invocation that returns a failure leaves every account's bytes,
\* length and owner as they were.
C6_FailureChangesNothing ==
    (Called /\ ~ Succeeded) => accounts = last.pre

\* An Increment(None) failed on overflow with the record untouched.
C6_Witness ==
    /\ IncrementOnRecord
    /\ Len(last.buf) = 2
    /\ last.result = "InvalidAccountData"
    /\ PreData = MaxBytes

\* The last invocation was an increment or decrement with a first account.
StepCall ==
    /\ Called
    /\ IsIncrementBuf(last.buf) \/ IsDecrementBuf(last.buf)
    /\ HasTarget

\* C7: Increment and Decrement check the owner first (IncorrectProgramId),
\* then the storage (UninitializedAccount); UninitializedAccount is
\* returned only for a program-owned account with zero-length storage.
C7_CheckOrder ==
    StepCall =>
        /\ PreOwner # last.program_id => last.result = "IncorrectProgramId"
        /\ (PreOwner = last.program_id /\ Len(PreData) = 0)
             => last.result = "UninitializedAccount"
        /\ last.result = "UninitializedAccount"
             => (PreOwner = last.program_id /\ Len(PreData) = 0)

\* An increment on an empty account of another owner got IncorrectProgramId.
C7_Witness ==
    /\ StepCall
    /\ IsIncrementBuf(last.buf)
    /\ PreOwner # last.program_id
    /\ Len(PreData) = 0
    /\ last.result = "IncorrectProgramId"

\* C8 as stated: Increment or Decrement on an account still Unallocated
\* (no Initialize has succeeded on it) fails with UninitializedAccount.
C8_AsStated ==
    (StepCall /\ Target \notin initialized /\ last.pre[Target] = Unallocated)
        => last.result = "UninitializedAccount"

\* C8 (amended): Increment or Decrement on an account no Initialize has
\* succeeded on and whose storage is empty fails with IncorrectProgramId
\* when the account is Unallocated (the system program owns it), and with
\* UninitializedAccount only when the empty account is already owned by
\* the invoked program.
C8_BeforeInitialize ==
    (StepCall /\ Target \notin initialized /\ Len(PreData) = 0) =>
        /\ last.pre[Target] = Unallocated
             => last.result = "IncorrectProgramId"
        /\ PreOwner = last.program_id
             => last.result = "UninitializedAccount"

\* A decrement on an Unallocated account got IncorrectProgramId.
C8_Witness ==
    /\ StepCall
    /\ IsDecrementBuf(last.buf)
    /\ Target = "counter"
    /\ Target \notin initialized
    /\ last.pre[Target] = Unallocated
    /\ last.result = "IncorrectProgramId"

\* The target is program-owned and its non-empty storage is not eight bytes.
OnMalformedRecord ==
    /\ StepCall
    /\ PreOwner = last.program_id
    /\ Len(PreData) > 0
    /\ Len(PreData) # 8

\* C9 as stated: Increment or Decrement on a program-owned account whose
\* non-empty storage is not eight bytes fails with InvalidAccountData.
C9_AsStated ==
    OnMalformedRecord => last.result = "InvalidAccountData"

\* What the code does in the case of C9: Increment or Decrement on a
\* program-owned account whose non-empty storage is not eight bytes fails
\* with BorshIoError (the io::Error of try_from_slice converted by `?`),
\* not with the InvalidAccountData of overflow and underflow; no account
\* is changed.
C9_MalformedRecord ==
    OnMalformedRecord =>
        (last.result = "BorshIoError" /\ accounts = last.pre)

\* An increment on a nine-byte record failed with BorshIoError.
C9_Witness ==
    /\ OnMalformedRecord
    /\ IsIncrementBuf(last.buf)
    /\ Len(PreData) = 9
    /\ last.result = "BorshIoError"

\* C10: a buffer that is not the exact encoding of one instruction makes
\* the dispatcher fail with InvalidInstructionData; no handler runs (no
\* handler log line) and no account changes.
C10_MalformedInstruction ==
    (Called /\ ~ ExactEncoding(last.buf)) =>
        /\ last.result = "InvalidInstructionData"
        /\ last.logs = <<>>
        /\ accounts = last.pre

\* A valid encoding followed by one more byte was rejected on an account
\* the instruction would otherwise have changed.
C10_Witness ==
    /\ Called
    /\ Len(last.buf) = 11
    /\ IsDecrementBuf(SubSeq(last.buf, 1, 10))
    /\ HasTarget
    /\ PreOwner = last.program_id
    /\ Len(PreData) = 8
    /\ PreData # ZeroBytes
    /\ last.result = "InvalidInstructionData"

-----------------------------------------------------------------------------
\* The result and the account store an invocation would leave from the
\* current state.
Outcome(program_id, accts, buf, host) ==
    LET r == process_instruction(program_id, accts, accounts, buf, host)
    IN  [result |-> r.result, accounts |-> r.accounts]

\* C11: from every reachable state, Increment(None) has the same result
\* and leaves the same account bytes as Increment(Some(1)), and
\* Decrement(None) the same as Decrement(Some(1)), for every program
\* identity and reference list; and an Increment(None) on a program-owned
\* record with count c stores c+1 when c+1 <= 2^64-1.
C11_DefaultStepIsOne ==
    /\ \A p \in Programs, l \in AccountLists :
         /\ Outcome(p, l, <<1, 0>>, "Ok")
              = Outcome(p, l, <<1, 1>> \o OneBytes, "Ok")
         /\ Outcome(p, l, <<2, 0>>, "Ok")
              = Outcome(p, l, <<2, 1>> \o OneBytes, "Ok")
    /\ (IncrementOnRecord /\ Len(last.buf) = 2 /\ SumFits(PreData, OneBytes))
         => (Succeeded /\ PostData = ByteSum(PreData, OneBytes))
    /\ (DecrementOnRecord /\ Len(last.buf) = 2 /\ PreData # ZeroBytes)
         => (Succeeded /\ IsDifference(PostData, PreData, OneBytes))

\* Increment(None) took a record from 2^64-2 to 2^64-1.
C11_Witness ==
    /\ IncrementOnRecord
    /\ Len(last.buf) = 2
    /\ Succeeded
    /\ PreData = <<254, 255, 255, 255, 255, 255, 255, 255>>
    /\ PostData = MaxBytes

-----------------------------------------------------------------------------
\* The CounterInstruction values over the bounded payloads, in the form the
\* decoder hands them to the dispatcher.
Instructions ==
    {[ok |-> TRUE, variant |-> "InitializeCounter", initial_value |-> v,
      step |-> None] : v \in InitialValues}
    \cup
    {[ok |-> TRUE, variant |-> vr, initial_value |-> U64(0), step |-> st] :
       vr \in {"IncrementCounter", "DecrementCounter"}, st \in Steps}

\* borsh::to_vec of an instruction value.
Encode(x) ==
    IF x.variant = "InitializeCounter" THEN enc_InitializeCounter(x.initial_value)
    ELSE IF x.variant = "IncrementCounter" THEN enc_IncrementCounter(x.step)
    ELSE enc_DecrementCounter(x.step)

\* The first log line of the handler of a variant.
FirstLine(variant) ==
    IF variant = "InitializeCounter" THEN "Initializing counter with value"
    ELSE IF variant = "IncrementCounter" THEN "Incrementing counter by"
    ELSE "Decrementing counter by"

\* C12: decoding the encoding of an instruction value x yields x, for every
\* variant, step absent or present and every bounded payload; distinct
\* values have distinct encodings; and an invocation whose buffer is the
\* encoding of x runs the handler of x's variant.
C12_RoundTrip ==
    /\ \A x \in Instructions : CounterInstruction_try_from_slice(Encode(x)) = x
    /\ \A x, y \in Instructions : Encode(x) = Encode(y) => x = y
    /\ Called => \A x \in Instructions :
         Encode(x) = last.buf =>
             /\ last.result # "InvalidInstructionData"
             /\ last.logs[1] = FirstLine(x.variant)

\* An invocation decoded Increment(Some(1)) from its encoding and applied
\* that step.
C12_Witness ==
    /\ Called
    /\ last.buf = Encode([ok |-> TRUE, variant |-> "IncrementCounter",
                          initial_value |-> U64(0), step |-> Some(U64(1))])
    /\ last.logs[1] = "Incrementing counter by"
    /\ OwnedRecord
    /\ Succeeded
    /\ PostData = ByteSum(PreData, OneBytes)

-----------------------------------------------------------------------------
\* A small count as its eight stored bytes, and at the ledger's width.
SmallCount(n) == <<n, 0, 0, 0, 0, 0, 0, 0>>

\* Counts after each transaction of the script, and the totals of the
\* steps of the increments and decrements that have succeeded by then.
ExpectedCounts == <<42, 43, 48, 47, 44, 0, 0>>

ExpectedIncs == <<0, 1, 6, 6, 6, 6, 6>>

ExpectedDecs == <<0, 0, 0, 1, 4, 48, 48>>

\* C13 (under SpecScenario): from an unallocated account, Initialize(42),
\* Increment(None), Increment(Some(5)), Decrement(None), Decrement(Some(3)),
\* Decrement(Some(44)), Decrement(Some(1)) leave counts 42, 43, 48, 47, 44,
\* 0; the first six succeed (their steps are all on the ledger); the
\* seventh fails and the count stays 0.
C13_Scenario ==
    /\ calls = 0 => accounts["counter"] = Unallocated
    /\ calls >= 1 =>
         /\ accounts["counter"].data = SmallCount(ExpectedCounts[calls])
         /\ "counter" \in initialized
         /\ ledger["counter"].initial = Widen(SmallCount(42))
         /\ ledger["counter"].incs = Widen(SmallCount(ExpectedIncs[calls]))
         /\ ledger["counter"].decs = Widen(SmallCount(ExpectedDecs[calls]))
    /\ calls = Len(Script) => ~ Succeeded
    /\ (calls = Len(Script) /\ last.buf = Script[calls] /\ HasTarget
        /\ Target = "counter" /\ PreOwner = last.program_id)
         => last.result = "InvalidAccountData"

\* The seventh transaction, Decrement(Some(1)) on count 0, was rejected.
C13_Witness ==
    /\ calls = Len(Script)
    /\ last.buf = Script[calls]
    /\ HasTarget /\ Target = "counter"
    /\ PreOwner = last.program_id
    /\ last.result = "InvalidAccountData"
    /\ PostData = ZeroBytes

-----------------------------------------------------------------------------
\* The storage is one well-formed CounterAccount record: exactly eight
\* bytes that decode to a count and re-encode to the same bytes.
WellFormedRecord(data) ==
    /\ Len(data) = 8
    /\ IsByteString(data)
    /\ CounterAccount_try_from_slice(data).ok
    /\ to_le_bytes(CounterAccount_try_from_slice(data).count) = data

\* C14: right after a successful Initialize the account's storage is the
\* eight little-endian bytes of the initial value, and in every reachable
\* state the storage of every account an Initialize has succeeded on is
\* exactly one well-formed eight-byte record.
C14_WellFormedAfterInitialize ==
    /\ \A k \in initialized : WellFormedRecord(accounts[k].data)
    /\ (Called /\ IsInitializeBuf(last.buf) /\ Succeeded) =>
         /\ Target \in initialized
         /\ PostData = InitialValueBytes(last.buf)

\* An account initialized by this behaviour has since been changed by a
\* successful increment or decrement and still holds eight bytes.
C14_Witness ==
    /\ StepCall
    /\ Succeeded
    /\ Target = "counter"
    /\ Len(last.pre[Target].data) = 8
    /\ PostData # PreData
    /\ calls = 2
    /\ ledger["counter"].initial # Widen(SmallCount(5))
    /\ WellFormedRecord(PostData)

-----------------------------------------------------------------------------
\* The step just taken was a successful InitializeCounter on account k.
InitializedBy(k) ==
    /\ last'.result = "Ok"
    /\ IsInitializeBuf(last'.buf)
    /\ Len(last'.accts) >= 1
    /\ last'.accts[1] = k

\* C15: an account leaves the Unallocated state only by a successful
\* Initialize on it, and an account an Initialize has succeeded on keeps
\* non-empty storage and stays initialized in every later state, whatever
\* is invoked and whether it succeeds or fails.
C15_InitializedForever ==
    [][ \A k \in Keys :
          /\ (accounts[k] = Unallocated /\ accounts'[k] # Unallocated)
               => InitializedBy(k)
          /\ (k \notin initialized /\ k \in initialized')
               => (Len(accounts[k].data) = 0 /\ InitializedBy(k))
          /\ k \in initialized
               => /\ k \in initialized'
                  /\ Len(accounts'[k].data) > 0
                  /\ accounts'[k].owner = accounts[k].owner ]_vars

\* An account initialized in this behaviour was then decremented to zero
\* and is still initialized, with its eight bytes.
C15_Witness ==
    /\ StepCall
    /\ IsDecrementBuf(last.buf)
    /\ Succeeded
    /\ Target = "counter"
    /\ PreData # ZeroBytes
    /\ PostData = ZeroBytes
    /\ "counter" \in initialized
    /\ accounts["counter"] # Unallocated

-----------------------------------------------------------------------------
\* C16: a successful Increment or Decrement changes only the count bytes of
\* the first account of the list: that account keeps its storage length and
\* its owner, and every other account, passed in the list or not, keeps its
\* bytes, length and owner.
C16_Frame ==
    (StepCall /\ Succeeded) =>
        /\ Len(PostData) = Len(PreData)
        /\ accounts[Target].owner = PreOwner
        /\ \A k \in Keys \ {Target} : accounts[k] = last.pre[k]

\* A successful step on the counter account with the initialized account
\* "other" passed as second reference: the count changed, "other" did not.
C16_Witness ==
    /\ StepCall
    /\ Succeeded
    /\ last.accts = <<"counter", "other">>
    /\ PostData # PreData
    /\ Len(accounts["other"].data) = 8
    /\ accounts["other"] = last.pre["other"]

-----------------------------------------------------------------------------
\* Instruction buffers of every kind, for the properties that compare
\* invocations.
SampleBuffers ==
    InitializeBuffers \cup IncrementBuffers \cup DecrementBuffers
    \cup MalformedBuffers

\* The invocation reaches the host calls of the initialize handler: an
\* InitializeCounter with three references whose first account is empty.
ReachesHost(accts, buf) ==
    /\ IsInitializeBuf(buf)
    /\ Len(accts) >= 3
    /\ Len(accounts[accts[1]].data) = 0

\* C17 as stated: the result and the new account bytes are a function of
\* the instruction bytes and the account snapshot (storage bytes and
\* owners) of the invocation, here even with the program identity and the
\* reference list held fixed.
C17_AsStated ==
    \A p \in Programs, l \in AccountLists, b \in SampleBuffers :
       \A h \in HostOutcomes : Outcome(p, l, b, h) = Outcome(p, l, b, "Ok")

\* C17 (amended): the result and the new account bytes of an invocation
\* are a function of the program identity, the reference list, the
\* instruction bytes and the account snapshot, with no dependence on
\* earlier invocations, except that an Initialize that reaches the host
\* calls (three references, empty first account) also depends on whether
\* the host's rent lookup and create_account call succeed.
C17_Deterministic ==
    /\ \A p \in Programs, l \in AccountLists, b \in SampleBuffers :
         ~ ReachesHost(l, b) =>
            \A h \in HostOutcomes : Outcome(p, l, b, h) = Outcome(p, l, b, "Ok")
    /\ Called =>
         LET r == process_instruction(last.program_id, last.accts, last.pre,
                                      last.buf, last.host)
         IN  r.result = last.result /\ r.accounts = accounts /\ r.logs = last.logs

\* The same Initialize on the same unallocated account that was refused by
\* the host would have succeeded had the host accepted it.
C17_Witness ==
    /\ InitializeOnEmpty
    /\ last.pre[Target] = Unallocated
    /\ last.result = "CreateAccountFailed"
    /\ process_instruction(last.program_id, last.accts, last.pre, last.buf,
                           "Ok").result = "Ok"

-----------------------------------------------------------------------------
\* C18 as stated: a handler emits exactly one log line per invocation that
\* reaches it, whether the transition succeeds or fails.
C18_AsStated ==
    (Called /\ ExactEncoding(last.buf)) => Len(last.logs) = 1

\* C18 (amended): a handler emits one log line when the invocation reaches
\* it (naming the operation) and a second one when the transition
\* succeeds: a failing invocation that reached a handler logs exactly one
\* line, a successful one exactly two, an undecodable one none.
C18_LogLines ==
    Called =>
        IF ~ ExactEncoding(last.buf) THEN last.logs = <<>>
        ELSE /\ Len(last.logs) = (IF Succeeded THEN 2 ELSE 1)
             /\ last.logs[1] =
                  (IF last.buf[1] = 0 THEN "Initializing counter with value"
                   ELSE IF last.buf[1] = 1 THEN "Incrementing counter by"
                   ELSE "Decrementing counter by")
             /\ Succeeded =>
                  last.logs[2] =
                    (IF last.buf[1] = 0
                     THEN "Counter initialized successfully with value"
                     ELSE IF last.buf[1] = 1 THEN "Counter incremented to"
                     ELSE "Counter decremented to")

\* A successful increment logged two lines.
C18_Witness ==
    /\ IncrementOnRecord
    /\ Succeeded
    /\ last.logs = <<"Incrementing counter by", "Counter incremented to">>

-----------------------------------------------------------------------------
\* C19: at every reachable state, the count of an initialized account is
\* the value it was initialized with, plus the steps of the increments that
\* have succeeded on it since, minus the steps of the decrements that have
\* succeeded on it since (stated without subtraction: count plus decrements
\* equals initial value plus increments, in radix-256 arithmetic two bytes
\* wider than a count).
C19_CountIsSumOfSteps ==
    \A k \in initialized :
        WideSum(Widen(accounts[k].data), ledger[k].decs)
            = WideSum(ledger[k].initial, ledger[k].incs)

\* An initialized account has taken a successful increment and then a
\* successful decrement, both by a non-zero step.
C19_Witness ==
    /\ DecrementOnRecord
    /\ Succeeded
    /\ Target \in initialized
    /\ ledger[Target].incs # Widen(ZeroBytes)
    /\ ledger[Target].decs # Widen(ZeroBytes)

-----------------------------------------------------------------------------
\* C20: an account an Initialize by program P has succeeded on is owned by
\* P and non-empty from then on, so a later Increment or Decrement invoked
\* with the same P on it either succeeds or fails with InvalidAccountData
\* (arithmetic), never with IncorrectProgramId or UninitializedAccount.
C20_OwnedByInitializer ==
    /\ \A k \in initialized :
          /\ accounts[k].owner = ledger[k].program
          /\ Len(accounts[k].data) > 0
    /\ (StepCall /\ Target \in initialized
           /\ last.program_id = ledger[Target].program)
          => last.result \in {"Ok", "InvalidAccountData"}

\* The first call initialized an account with the greatest count, the
\* second was an Increment by the same program on it, which failed on the
\* arithmetic.
C20_Witness ==
    /\ calls = 2
    /\ StepCall
    /\ IsIncrementBuf(last.buf)
    /\ Target = "counter"
    /\ Target \in initialized
    /\ ledger[Target].initial = Widen(MaxBytes)
    /\ last.program_id = ledger[Target].program
    /\ PreOwner = last.program_id
    /\ last.result = "InvalidAccountData"

-----------------------------------------------------------------------------
\* C21: handlers take their accounts by position and fail with
\* NotEnoughAccountKeys when the list is too short, before any other
\* check: an Initialize with fewer than three references fails so even
\* when its first account already holds a record, an Increment or
\* Decrement with no reference fails so, and no account is changed.
C21_NotEnoughAccountKeys ==
    /\ (Called /\ IsInitializeBuf(last.buf) /\ Len(last.accts) < 3)
          => (last.result = "NotEnoughAccountKeys" /\ accounts = last.pre)
    /\ (Called /\ (IsIncrementBuf(last.buf) \/ IsDecrementBuf(last.buf))
           /\ Len(last.accts) = 0)
          => (last.result = "NotEnoughAccountKeys" /\ accounts = last.pre)

\* An Initialize with two references, the first an account that already
\* holds a record, was rejected for the missing third reference.
C21_Witness ==
    /\ Called
    /\ IsInitializeBuf(last.buf)
    /\ Len(last.accts) = 2
    /\ Len(PreData) > 0
    /\ Target \in initialized
    /\ last.result = "NotEnoughAccountKeys"

-----------------------------------------------------------------------------
\* A step in which a successful call with tag `first` and an explicit step
\* on an account is followed at once by a call with tag `second`, the same
\* step, the same program and the same first account.
FollowedByInverse(first, second) ==
    /\ Called
    /\ Succeeded
    /\ IsStepBuf(last.buf, first)
    /\ Len(last.buf) = 10
    /\ HasTarget
    /\ calls' = calls + 1
    /\ IsStepBuf(last'.buf, second)
    /\ Len(last'.buf) = 10
    /\ StepBytes(last'.buf) = StepBytes(last.buf)
    /\ last'.program_id = last.program_id
    /\ Len(last'.accts) >= 1
    /\ last'.accts[1] = Target

\* The second call succeeded and put back the bytes the first call found.
Restored ==
    /\ last'.result = "Ok"
    /\ accounts'[Target].data = last.pre[Target].data

\* C22: when Increment(Some(s)) has succeeded on an account, a Decrement
\* (Some(s)) that follows at once succeeds and restores the count; and
\* when Decrement(Some(s)) has succeeded, an Increment(Some(s)) that
\* follows at once succeeds and restores the count.
C22_IncDecInverse ==
    [][ /\ FollowedByInverse(1, 2) => Restored
        /\ FollowedByInverse(2, 1) => Restored ]_vars

\* An Increment by the greatest step succeeded on count 0 and the
\* Decrement by the same step that followed brought the count back to 0.
C22_Witness ==
    /\ DecrementOnRecord
    /\ Succeeded
    /\ StepBytes(last.buf) = MaxBytes
    /\ Len(last.buf) = 10
    /\ Target \in initialized
    /\ ledger[Target].incs = Widen(MaxBytes)
    /\ ledger[Target].decs = Widen(MaxBytes)
    /\ PreData = MaxBytes
    /\ PostData = ZeroBytes

-----------------------------------------------------------------------------
\* The last call A ran on the store last.pre; B is a second call on the
\* same account by the same program.  AfterA runs B on what A left,
\* BFirst runs B on the store A found, and AAfterB runs A on what B left.
AfterA(b) ==
    process_instruction(last.program_id, <<Target>>, accounts, b, "Ok")

BFirst(b) ==
    process_instruction(last.program_id, <<Target>>, last.pre, b, "Ok")

AAfterB(b) ==
    process_instruction(last.program_id, last.accts, BFirst(b).accounts,
                        last.buf, last.host)

BothOrdersSucceed(b) ==
    /\ Succeeded
    /\ AfterA(b).result = "Ok"
    /\ BFirst(b).result = "Ok"
    /\ AAfterB(b).result = "Ok"

\* C23: when two Increment/Decrement invocations on the same account are
\* run one at a time in either order and both succeed in both orders, the
\* final count (indeed the whole account store) is the same in both
\* orders; whether a call succeeds can depend on the order: on count 0,
\* Increment(1) then Decrement(1) both succeed, while Decrement(1) first
\* fails and changes nothing.
C23_Commute ==
    /\ (StepCall /\ ExactEncoding(last.buf)) =>
          \A b \in IncrementBuffers \cup DecrementBuffers :
             BothOrdersSucceed(b) =>
                /\ AfterA(b).accounts[Target].data
                     = AAfterB(b).accounts[Target].data
                /\ AfterA(b).accounts = AAfterB(b).accounts
    /\ (IncrementOnRecord /\ Succeeded /\ PreData = ZeroBytes
           /\ StepBytes(last.buf) = OneBytes) =>
          LET dec == <<2, 1>> \o OneBytes
          IN  /\ AfterA(dec).result = "Ok"
              /\ AfterA(dec).accounts[Target].data = ZeroBytes
              /\ BFirst(dec).result = "InvalidAccountData"
              /\ BFirst(dec).accounts = last.pre

\* On count 0 an Increment(1) and then a Decrement(1) have both succeeded
\* and the count is 0 again, where a Decrement(1) run first fails; and the
\* Decrement(1) just run commutes with an Increment(1): both orders
\* succeed and end on the same count.
C23_Witness ==
    /\ DecrementOnRecord
    /\ Succeeded
    /\ StepBytes(last.buf) = OneBytes
    /\ Target \in initialized
    /\ ledger[Target].initial = Widen(ZeroBytes)
    /\ ledger[Target].incs = Widen(OneBytes)
    /\ PreData = OneBytes
    /\ PostData = ZeroBytes
    /\ process_instruction(last.program_id, last.accts, accounts, last.buf,
                           "Ok").result = "InvalidAccountData"
    /\ BothOrdersSucceed(<<1, 1>> \o OneBytes)
    /\ AfterA(<<1, 1>> \o OneBytes).accounts[Target].data = OneBytes
    /\ AAfterB(<<1, 1>> \o OneBytes).accounts[Target].data = OneBytes

====
